---- MODULE Spec2Model ----
(***************************************************************************)
(* A model of tgulacsi/testproxy: the dual-dispatch proxy handler          *)
(* (dualServer.ServeHTTP) in its two source variants, the request/response *)
(* capture helpers, the respWriter, the sequence allocator (nextID) and    *)
(* the draining listener (stoppableListener / stoppableConn).              *)
(*                                                                         *)
(*   variant = "client"  is src/main.go: the backends are http.Clients,    *)
(*                        the secondary call runs in a goroutine started   *)
(*                        before the primary response is saved;            *)
(*   variant = "proxy"   is src/unnamed/part_000: the backends are         *)
(*                        httputil.ReverseProxy handlers writing through   *)
(*                        respWriter.                                      *)
(***************************************************************************)
EXTENDS Integers, Sequences, FiniteSets, TLC

\* ------------------------------------------------------------------ bounds
MaxExchanges == 1
MaxConns == 2
MaxCloses == 2
MaxCalls == 3
MaxClosers == 3
MaxWrites == 3

\* ------------------------------------------------------- program constants
\* http.StatusOK, http.StatusInternalServerError.
StatusOK == 200
StatusInternalServerError == 500
\* The status httputil.ReverseProxy writes when its round trip fails
\* (http.StatusBadGateway); the handler of part_000 has no other error path.
StatusBadGateway == 502
\* fmt.Sprintf("%09d", id): the minimal width of the exchange's base name.
IdWidth == 9

Exchanges == 1..MaxExchanges
Slots == 0..2

\* ---------------------------------------------------------------- messages
\* An http.Response (or http.Request) value; nil marks a nil pointer.  body is
\* what can still be read from Body.
Response(st, h, b) == [nil |-> FALSE, status |-> st, header |-> h, body |-> b]
NilResponse == [nil |-> TRUE, status |-> 0, header |-> {}, body |-> <<>>]

\* What the primary and the secondary backend may answer.
PrimaryAnswers ==
  { Response(200, {<<"X-Backend", "primary">>}, <<"ok">>),
    Response(500, {<<"X-Backend", "primary">>}, <<"err">>) }
SecondaryAnswers ==
  { Response(200, {<<"X-Backend", "secondary">>}, <<"ok">>),
    Response(500, {<<"X-Backend", "secondary">>}, <<"err">>) }
\* A backend call that fails (unreachable, timeout) answers nothing.
NoAnswer == NilResponse

\* The inbound request of an exchange (Scenario A's POST "hello").
Inbound ==
  [nil |-> FALSE, status |-> 0, header |-> {<<"Content-Type", "text/plain">>},
   body |-> <<"hello">>]

\* Bytes on disk: the message as a sequence of parts, in wire order.
StatusTok(s) == [t |-> "status", status |-> s, header |-> {}, chunk |-> ""]
ReqLineTok == [t |-> "reqline", status |-> 0, header |-> {}, chunk |-> ""]
HeaderTok(h) == [t |-> "header", status |-> 0, header |-> h, chunk |-> ""]
BodyTok(c) == [t |-> "body", status |-> 0, header |-> {}, chunk |-> c]

BodyToks(b) == [i \in 1..Len(b) |-> BodyTok(b[i])]
AllBody(data, from) == \A i \in from..Len(data) : data[i].t = "body"
BodyOf(data) == [i \in 1..(Len(data) - 2) |-> data[i + 2].chunk]

\* http.Response.Write / http.ReadResponse, http.Request.Write / http.ReadRequest
ResponseWrite(resp) == <<StatusTok(resp.status), HeaderTok(resp.header)>> \o BodyToks(resp.body)
ReadResponse(data) ==
  IF Len(data) >= 2 /\ data[1].t = "status" /\ data[2].t = "header" /\ AllBody(data, 3)
  THEN Response(data[1].status, data[2].header, BodyOf(data))
  ELSE NilResponse
RequestWrite(r) == <<ReqLineTok, HeaderTok(r.header)>> \o BodyToks(r.body)
ReadRequest(data) ==
  IF Len(data) >= 2 /\ data[1].t = "reqline" /\ data[2].t = "header" /\ AllBody(data, 3)
  THEN Response(0, data[2].header, BodyOf(data))
  ELSE NilResponse

\* A file of the capture directory.
Absent == [exists |-> FALSE, data |-> <<>>]
File(data) == [exists |-> TRUE, data |-> data]
NoFiles == [s \in Slots |-> Absent]

Prefix(s, n) == SubSeq(s, 1, n)
Rest(s, n) == SubSeq(s, n + 1, Len(s))
Max(a, b) == IF a >= b THEN a ELSE b

\* The outcomes of an I/O sequence that writes len parts: it succeeds, or one
\* of its system calls fails; a failing write leaves the n parts before it
\* (taken here to fail on the last part, the body).
IoOutcomes(kinds, len) ==
  {[kind |-> k, n |-> len] : k \in kinds} \cup {[kind |-> "write", n |-> n] : n \in {len - 1}}

\* ------------------------------------------------------------ saveRequest
\* main.go saveRequest up to the returned closure, and part_000 writeRequest:
\* os.Create, r.Write, fh.Close.
saveRequest(r, out) ==
  [ err |-> IF out.kind = "ok" THEN "nil" ELSE "saveRequest: " \o out.kind,
    file |-> CASE out.kind = "create" -> Absent
               [] out.kind = "write" -> File(Prefix(RequestWrite(r), out.n))
               [] OTHER -> File(RequestWrite(r)) ]
SaveRequestOutcomes(r) == IoOutcomes({"ok", "create", "close"}, Len(RequestWrite(r)))

\* The closure saveRequest returns (readReq): os.Open, http.ReadRequest.
readReq(file, out) ==
  LET req == IF out = "open" \/ ~file.exists THEN NilResponse ELSE ReadRequest(file.data)
  IN [ req |-> req,
       err |-> IF out = "open" \/ ~file.exists THEN "readReq: open"
               ELSE IF req.nil THEN "readReq: parse" ELSE "nil" ]
ReadReqOutcomes == {"ok", "open"}

\* ----------------------------------------------------------- saveResponse
\* main.go saveResponse: os.Create, resp.Write (which drains resp.Body),
\* fh.Seek, http.ReadResponse.  rest is what is left to read of resp's own
\* body afterwards; a write that fails on part n+1 has already read it.
saveResponse(resp, out) ==
  LET data == ResponseWrite(resp)
      parsed == ReadResponse(data)
  IN CASE out.kind = "create" ->
            [resp |-> resp, err |-> "saveResponse: create", file |-> Absent, rest |-> resp.body]
       [] out.kind = "write" ->
            [resp |-> NilResponse, err |-> "saveResponse: write",
             file |-> File(Prefix(data, out.n)), rest |-> Rest(resp.body, Max(0, out.n - 1))]
       [] out.kind = "seek" ->
            [resp |-> NilResponse, err |-> "saveResponse: seek", file |-> File(data), rest |-> <<>>]
       [] OTHER ->
            [resp |-> parsed, err |-> IF parsed.nil THEN "saveResponse: parse" ELSE "nil",
             file |-> File(data), rest |-> <<>>]
SaveResponseOutcomes(resp) == IoOutcomes({"ok", "create", "seek"}, Len(ResponseWrite(resp)))

\* ------------------------------------------------- the caller-facing writer
\* The http.ResponseWriter net/http hands to ServeHTTP.  status 0: no header
\* written yet.  by: the tasks that called a method of it.
NewCaller == [status |-> 0, header |-> {}, body |-> <<>>, by |-> {}]
CallerSetHeader(cw, h, task) ==
  IF cw.status = 0 THEN [cw EXCEPT !.header = @ \cup h, !.by = @ \cup {task}]
  ELSE [cw EXCEPT !.by = @ \cup {task}]
CallerWriteHeader(cw, st, task) ==
  IF cw.status = 0 THEN [cw EXCEPT !.status = st, !.by = @ \cup {task}]
  ELSE [cw EXCEPT !.by = @ \cup {task}]
CallerWrite(cw, p, task) ==
  [cw EXCEPT !.status = IF @ = 0 THEN StatusOK ELSE @, !.body = @ \o p, !.by = @ \cup {task}]
\* http.Error(w, msg, code)
HttpError(cw, msg, code, task) ==
  CallerWrite(
    CallerWriteHeader(CallerSetHeader(cw, {<<"Content-Type", "text/plain; charset=utf-8">>}, task),
                      code, task),
    <<msg>>, task)

\* -------------------------------------------------------------- respWriter
\* part_000 respWriter: w (is the caller's writer attached), h (its own header
\* map), status.  Its methods act on a bundle: the respWriter, the caller's
\* writer, the capture file behind WriteCloser, whether writes to that file
\* succeed (their errors are dropped), and the calling task.
NewRespWriter == [w |-> FALSE, h |-> {}, status |-> 0]
Bundle(rw, cw, file, diskOk, task) ==
  [rw |-> rw, cw |-> cw, file |-> file, diskOk |-> diskOk, task |-> task]
FileAppend(b, toks) ==
  IF b.diskOk /\ b.file.exists THEN [b EXCEPT !.file.data = @ \o toks] ELSE b

\* func (w *respWriter) Header()
Header(b) == IF b.rw.w THEN b.cw.header ELSE b.rw.h
\* Header()[k] = v, as a handler sets response headers.
HeaderAdd(b, h) ==
  IF b.rw.w THEN [b EXCEPT !.cw = CallerSetHeader(b.cw, h, b.task)]
  ELSE [b EXCEPT !.rw.h = @ \cup h]
\* func (w *respWriter) WriteHeader(status int)
WriteHeader(b, status) ==
  LET b1 == [b EXCEPT !.rw.status = status]
      b2 == IF b.rw.w THEN [b1 EXCEPT !.cw = CallerWriteHeader(b.cw, status, b.task)] ELSE b1
  IN FileAppend(b2, <<StatusTok(status), HeaderTok(Header(b2))>>)
\* func (w respWriter) Write(p []byte): the receiver is a copy, so the status
\* the implicit WriteHeader records is lost when Write returns.
Write(b, p) ==
  LET b1 == IF b.rw.status = 0 THEN WriteHeader(b, StatusOK) ELSE b
      b2 == [b1 EXCEPT !.rw = b.rw]
      b3 == IF b.rw.w THEN [b2 EXCEPT !.cw = CallerWrite(b2.cw, p, b.task)] ELSE b2
  IN FileAppend(b3, BodyToks(p))

RECURSIVE WriteAll(_, _)
WriteAll(b, body) ==
  IF body = <<>> THEN b ELSE WriteAll(Write(b, <<Head(body)>>), Tail(body))

\* httputil.ReverseProxy.ServeHTTP(rw, req) for a backend that answers ans (or
\* fails: NoAnswer): the answer's headers, status and body go to rw; a failed
\* round trip is logged and answered with StatusBadGateway and no body.
ReverseProxyServe(b, ans) ==
  IF ans.nil THEN WriteHeader(b, StatusBadGateway)
  ELSE WriteAll(WriteHeader(HeaderAdd(b, ans.header), ans.status), ans.body)

\* ---------------------------------------------------------- nextID, paths
\* Numbers up to and beyond 2^32 are kept as two limbs, hi * 2^16 + lo with
\* lo < 2^16; a uint32 has hi < 2^16.
Limb == 2^16
Num(n) == [hi |-> n \div Limb, lo |-> n % Limb]
Succ(v) == IF v.lo + 1 = Limb THEN [hi |-> v.hi + 1, lo |-> 0] ELSE [hi |-> v.hi, lo |-> v.lo + 1]
Less(a, b) == a.hi < b.hi \/ (a.hi = b.hi /\ a.lo < b.lo)
MaxUint32 == [hi |-> Limb - 1, lo |-> Limb - 1]
IsUint32(v) == v.hi < Limb

\* A load in place of the add: ds.id is returned and never advanced.
LoadUint32(v, delta) == v
\* atomic.AddUint32(&ds.id, delta): the new value, modulo 2^32
AddUint32(v, delta) ==
  LET s == v.lo + delta
  IN [hi |-> (v.hi + (s \div Limb)) % Limb, lo |-> s % Limb]
\* func (ds *dualServer) nextID() uint32
nextID(v) == AddUint32(v, 1)

\* The decimal digits of a two-limb number.
RECURSIVE Digits(_)
Digits(v) ==
  LET lo2 == (v.hi % 10) * Limb + v.lo
      q == [hi |-> v.hi \div 10, lo |-> 0]
      \* v div 10 = (hi div 10) * 2^16 + lo2 div 10, and lo2 div 10 < 2^16
      quot == [hi |-> q.hi, lo |-> lo2 \div 10]
  IN IF v.hi = 0 /\ v.lo < 10 THEN <<v.lo>> ELSE Digits(quot) \o <<lo2 % 10>>
\* fmt.Sprintf("%09d", id): decimal, left-padded with zeros to IdWidth.
Sprintf09d(v) ==
  LET d == Digits(v)
  IN [i \in 1..Max(0, IdWidth - Len(d)) |-> 0] \o d

\* ------------------------------------------------------------ multiCloser
\* The results the Close of a backing closer may have.
CloseResults == {"nil", "EBADF", "EIO"}
\* The last error is kept in place of the first.
KeepLast(err, closeErr) == IF closeErr # "nil" THEN closeErr ELSE err
\* main.go 234-236, part_000 236-238:
\* if closeErr := c.Close(); closeErr != nil && err == nil { err = closeErr }
KeepFirst(err, closeErr) == IF closeErr # "nil" /\ err = "nil" THEN closeErr ELSE err
\* func (mc multiCloser) Close() error, for closers whose Close results are
\* given in order: the closers called, in call order, and the error returned.
RECURSIVE CloseLoop(_, _, _, _)
CloseLoop(closers, i, err, called) ==
  IF i > Len(closers) THEN [err |-> err, called |-> called]
  ELSE CloseLoop(closers, i + 1, KeepFirst(err, closers[i]), Append(called, i))
multiCloser_Close(closers) == CloseLoop(closers, 1, "nil", <<>>)

\* ------------------------------------------------------------ file handles
\* The *os.File values of an exchange, named by the call that makes them:
\*   w0  os.Create of N.0 (saveRequest / writeRequest)
\*   r1  os.Open of N.0 for the primary's replay, r2 for the secondary's
\*   f1  os.Create of N.1, f2 os.Create of N.2
\* captured (of r1, r2): when it was opened, N.0 held the whole request and
\* its writer was closed.
HandleNames == {"w0", "r1", "r2", "f1", "f2"}
NoHandle == [state |-> "none", captured |-> FALSE]
NoHandles == [h \in HandleNames |-> NoHandle]
OsCreate(hs, h) == [hs EXCEPT ![h] = [state |-> "open", captured |-> FALSE]]
OsOpen(hs, h, file, r) ==
  [hs EXCEPT ![h] = [state |-> "open",
                     captured |-> hs["w0"].state = "closed" /\ file = File(RequestWrite(r))]]
\* The handle is left open.
FhLeaveOpen(hs, h) == hs
\* fh.Close()
FhClose(hs, h) == [hs EXCEPT ![h].state = "closed"]

\* saveRequest / writeRequest, the handle on N.0: closed on every path that
\* created it (main.go 199, 202; part_000 219, 222).
saveRequestFh(hs, out) ==
  IF out.kind = "create" THEN hs ELSE FhClose(OsCreate(hs, "w0"), "w0")
\* The closure of saveRequest (main.go 207-219) and the loop of part_000
\* (147-157): the reader h on N.0; it stays open when http.ReadRequest fails,
\* and belongs to the request's Body when it succeeds.
readReqFh(hs, h, file, r, out) ==
  IF out = "open" \/ ~file.exists THEN hs ELSE OsOpen(hs, h, file, r)
\* saveResponse, the handle h on N.1 / N.2 (main.go 169-190): closed on the
\* error paths after os.Create, and left to the returned resp.Body's
\* multiCloser on success.
saveResponseFh(hs, h, resp, out) ==
  CASE out.kind = "create" -> hs
    [] out.kind \in {"write", "seek"} -> FhClose(OsCreate(hs, h), h)
    [] OTHER -> IF ReadResponse(ResponseWrite(resp)).nil
                THEN FhClose(OsCreate(hs, h), h) ELSE OsCreate(hs, h)

\* --------------------------------------------------------- request objects
\* The *http.Request values http.ReadRequest makes of N.0: the request URI,
\* the header map, what is left to read of Body, the handle behind Body
\* (multiCloser{req.Body, fh}) and whether Body was closed.
RequestObject(req, h) ==
  [uri |-> "/", header |-> req.header, body |-> req.body, fh |-> h, closed |-> FALSE]
NoObjects == [objs |-> <<>>, refs |-> <<0, 0>>]
\* One object is made and handed out again for every replay.
ReuseObject(rq, i, obj) ==
  IF rq.objs = <<>> THEN [objs |-> <<obj>>, refs |-> [rq.refs EXCEPT ![i] = 1]]
  ELSE [rq EXCEPT !.refs[i] = 1]
\* http.ReadRequest allocates a request of its own on every call; refs[i] is
\* the pointer replay i holds (requests[i-1] of part_000; the r main.go line
\* 101 assigns for i = 1, line 114 for i = 2).
NewObject(rq, i, obj) ==
  [objs |-> Append(rq.objs, obj), refs |-> [rq.refs EXCEPT ![i] = Len(rq.objs) + 1]]
\* A nil request: readReq failed.
NilObject(rq, i) == [rq EXCEPT !.refs[i] = 0]
\* r.RequestURI = "" (main.go 106)
ClearRequestURI(rq, i) == [rq EXCEPT !.objs[rq.refs[i]].uri = ""]
\* A dispatch may change the header map of the request it is given (the
\* transport's and the proxy's header handling); taken at its worst: it always
\* adds a field.
MutateHeader(rq, i) ==
  [rq EXCEPT !.objs[rq.refs[i]].header = @ \cup {<<"X-Forwarded-For", "caller">>}]
\* A backend dispatch of replay i (http.Client.Do, ReverseProxy.ServeHTTP): the
\* transport reads the body when it reaches the backend and closes it always.
Dispatched(rq, i, answered) ==
  [rq EXCEPT !.objs[rq.refs[i]].body = IF answered THEN <<>> ELSE @,
             !.objs[rq.refs[i]].closed = TRUE]
\* What the backend is sent of replay i.
Sent(rq, i) ==
  LET o == rq.objs[rq.refs[i]] IN Response(0, o.header, IF o.closed THEN <<>> ELSE o.body)
\* Body.Close() of replay i: multiCloser{req.Body, fh}.Close() closes the
\* handle, the second closer.
CloseBody(hs, rq, i) ==
  LET called == multiCloser_Close(<<"nil", "nil">>).called
  IN IF \E k \in 1..Len(called) : called[k] = 2
     THEN FhClose(hs, rq.objs[rq.refs[i]].fh) ELSE hs

\* ------------------------------------------------------------------- state
VARIABLES
  variant,    \* which source variant runs: "client" (main.go) or "proxy" (part_000)
  id,         \* dualServer.id
  serve,      \* per exchange: the serving task (ServeHTTP): pc and locals
  detached,   \* per exchange: the goroutine ServeHTTP starts: pc and locals
  shared,     \* per exchange: the variables r, err the goroutine of main.go captures
  rws,        \* per exchange: respWriters of part_000
  disk,       \* per exchange: the files N.0, N.1, N.2
  client,     \* per exchange: the caller-facing http.ResponseWriter
  backend,    \* per exchange: what each backend was asked and answered
  logs,       \* per exchange: the log entries
  touched,    \* per exchange: <<task, target>> for every write of a task
  handles,    \* per exchange: the *os.File handles, by the call that makes them
  reqs,       \* per exchange: the requests http.ReadRequest made, and who holds them
  listening,  \* the underlying net.Listener is open
  wg,         \* stoppableListener.WaitGroup's counter
  conns,      \* per connection: accepted?, Close calls, accepted after the close
  mainpc,     \* main: serving (http.Serve), accepted, waiting (sl.Wait), exited
  sigpc,      \* the interrupt goroutine of main
  wgPanic,    \* sync: negative WaitGroup counter
  calls,      \* nextID callers: pc, returned id, the calls that had returned at its start
  ncalls,     \* the number of nextID calls made on ds so far
  mc,         \* a multiCloser.Close call: the closers' results, loop position, err
  wr          \* a respWriter under a sequence of calls: the bundle and the calls

dispatchVars ==
  <<variant, id, serve, detached, shared, rws, disk, client, backend, logs, touched, handles, reqs>>
drainVars == <<listening, wg, conns, mainpc, sigpc, wgPanic>>
idVars == <<calls, ncalls>>
unitVars == <<mc, wr>>
vars == <<dispatchVars, drainVars, idVars, unitVars>>

Variants == {"client", "proxy"}

LogEntry(msg, a, b) == [msg |-> msg, a |-> a, b |-> b]

NewServe ==
  [pc |-> "idle", resp1 |-> NilResponse, resp |-> NilResponse, outcome |-> "none",
   captureErr |-> "nil", saveErr |-> "nil"]
NewDetached == [pc |-> "none", sc |-> 0, err |-> "nil", resp2 |-> NilResponse, outcome |-> "none"]
NewShared == [r |-> NilResponse, err |-> "nil"]
NewBackend ==
  [primary |-> "none", answer1 |-> NilResponse, req1 |-> NilResponse,
   secondary |-> "none", answer2 |-> NilResponse, req2 |-> NilResponse]

ExchangeInit ==
  /\ variant \in Variants
  /\ serve = [e \in Exchanges |-> NewServe]
  /\ detached = [e \in Exchanges |-> NewDetached]
  /\ shared = [e \in Exchanges |-> NewShared]
  /\ rws = [e \in Exchanges |-> <<NewRespWriter, NewRespWriter>>]
  /\ disk = [e \in Exchanges |-> NoFiles]
  /\ client = [e \in Exchanges |-> NewCaller]
  /\ backend = [e \in Exchanges |-> NewBackend]
  /\ logs = [e \in Exchanges |-> {}]
  /\ touched = [e \in Exchanges |-> {}]
  /\ handles = [e \in Exchanges |-> NoHandles]
  /\ reqs = [e \in Exchanges |-> NoObjects]

DispatchInit == id = Num(0) /\ ExchangeInit

\* The check inverted: `err == nil`.
IsErrInverted(err) == err = "nil"
\* `err != nil`
IsErr(err) == err # "nil"

Log(e, msg, a, b) == logs' = [logs EXCEPT ![e] = @ \cup {LogEntry(msg, a, b)}]
Touch(e, task, targets) == touched' = [touched EXCEPT ![e] = @ \cup {<<task, t>> : t \in targets}]
SlotName(n) == CASE n = 0 -> "N.0" [] n = 1 -> "N.1" [] OTHER -> "N.2"
\* The files a call wrote to: the one it created, if it did.
Written(file, n) == IF file.exists THEN {SlotName(n)} ELSE {}

\* =================================================== main.go: ServeHTTP
\* Lines 94-99 with saveRequestResponse (153-166) and saveRequest (193-205):
\* allocate the id, write N.0; on failure answer 500 and return.
ServeHTTP_Capture(e) ==
  /\ variant = "client"
  /\ serve[e].pc = "idle"
  /\ nextID(id) = Num(e)
  /\ id' = nextID(id)
  /\ \E out \in SaveRequestOutcomes(Inbound) :
       LET res == saveRequest(Inbound, out) IN
       /\ disk' = [disk EXCEPT ![e][0] = res.file]
       /\ handles' = [handles EXCEPT ![e] = saveRequestFh(@, out)]
       /\ IF IsErr(res.err)
          THEN /\ Log(e, "error saving request", 0, 0)
               /\ Touch(e, "serve", Written(res.file, 0) \cup {"log"})
               /\ client' = [client EXCEPT ![e] =
                    HttpError(@, "error saving request", StatusInternalServerError, "serve")]
               /\ serve' = [serve EXCEPT ![e].pc = "done", ![e].outcome = "CaptureFailed",
                                         ![e].captureErr = res.err]
          ELSE /\ Touch(e, "serve", Written(res.file, 0))
               /\ serve' = [serve EXCEPT ![e].pc = "readReq", ![e].captureErr = res.err]
               /\ UNCHANGED <<logs, client>>
  /\ UNCHANGED <<variant, detached, shared, rws, backend, reqs, drainVars, idVars, unitVars>>

\* Lines 101-105: r, err = readReq(); on failure answer 500 and return.
ServeHTTP_ReadReq(e) ==
  /\ variant = "client"
  /\ serve[e].pc = "readReq"
  /\ \E out \in ReadReqOutcomes :
       LET res == readReq(disk[e][0], out) IN
       /\ shared' = [shared EXCEPT ![e] = [r |-> res.req, err |-> res.err]]
       /\ handles' = [handles EXCEPT ![e] = readReqFh(@, "r1", disk[e][0], Inbound, out)]
       /\ reqs' = [reqs EXCEPT ![e] = IF res.req.nil THEN NilObject(@, 1)
                                      ELSE NewObject(@, 1, RequestObject(res.req, "r1"))]
       /\ IF IsErr(res.err)
          THEN /\ Log(e, "error reading request", 0, 0)
               /\ Touch(e, "serve", {"log"})
               /\ client' = [client EXCEPT ![e] =
                    HttpError(@, "error reading request", StatusInternalServerError, "serve")]
               /\ serve' = [serve EXCEPT ![e].pc = "done", ![e].outcome = "CaptureFailed",
                                         ![e].captureErr = res.err]
          ELSE /\ serve' = [serve EXCEPT ![e].pc = "primary"]
               /\ UNCHANGED <<logs, client, touched>>
  /\ UNCHANGED <<variant, id, detached, rws, disk, backend, drainVars, idVars, unitVars>>

\* Lines 106-113 and 131: resp1, err := ds.primary.Do(r); on failure answer
\* with an error status and return, else start the goroutine with
\* sc = resp1.StatusCode.
ServeHTTP_Primary(e) ==
  /\ variant = "client"
  /\ serve[e].pc = "primary"
  /\ \E ans \in PrimaryAnswers \cup {NoAnswer} :
       /\ reqs' = [reqs EXCEPT ![e] =
            Dispatched(MutateHeader(ClearRequestURI(@, 1), 1), 1, ~ans.nil)]
       /\ handles' = [handles EXCEPT ![e] = CloseBody(@, reqs[e], 1)]
       /\ IF ans.nil
          THEN /\ backend' = [backend EXCEPT ![e].primary = "failed",
                                             ![e].req1 = Sent(ClearRequestURI(reqs[e], 1), 1)]
               /\ shared' = [shared EXCEPT ![e].err = "call primary"]
               /\ Log(e, "call primary", 0, 0)
               /\ Touch(e, "serve", {"log"})
               /\ client' = [client EXCEPT ![e] =
                    HttpError(@, "call primary", StatusInternalServerError, "serve")]
               /\ serve' = [serve EXCEPT ![e].pc = "done", ![e].outcome = "PrimaryFailed"]
               /\ UNCHANGED detached
          ELSE /\ backend' = [backend EXCEPT ![e].primary = "answered", ![e].answer1 = ans,
                                             ![e].req1 = Sent(ClearRequestURI(reqs[e], 1), 1)]
               /\ shared' = [shared EXCEPT ![e].err = "nil"]
               /\ serve' = [serve EXCEPT ![e].pc = "saveResp", ![e].resp1 = ans]
               /\ detached' = [detached EXCEPT ![e].pc = "readReq", ![e].sc = ans.status]
               /\ UNCHANGED <<logs, client, touched>>
  /\ UNCHANGED <<variant, id, rws, disk, drainVars, idVars, unitVars>>

\* Line 134: resp, err := saveResp(resp1, 1), which is saveResponse(base.1,
\* resp1).  err is the variable the goroutine also assigns (line 114).
ServeHTTP_SaveResp(e) ==
  /\ variant = "client"
  /\ serve[e].pc = "saveResp"
  /\ \E out \in SaveResponseOutcomes(serve[e].resp1) :
       LET res == saveResponse(serve[e].resp1, out) IN
       /\ disk' = [disk EXCEPT ![e][1] = res.file]
       /\ handles' = [handles EXCEPT ![e] = saveResponseFh(@, "f1", serve[e].resp1, out)]
       /\ Touch(e, "serve", Written(res.file, 1))
       /\ shared' = [shared EXCEPT ![e].err = res.err]
       /\ serve' = [serve EXCEPT ![e].pc = "checkErr", ![e].resp = res.resp,
                                 ![e].resp1.body = res.rest, ![e].saveErr = res.err]
  /\ UNCHANGED <<variant, id, detached, rws, client, backend, logs, reqs, drainVars, idVars, unitVars>>

\* Lines 135-138: if err != nil { log; resp = resp1 }.
ServeHTTP_CheckErr(e) ==
  /\ variant = "client"
  /\ serve[e].pc = "checkErr"
  /\ IF IsErr(shared[e].err)
     THEN /\ Log(e, "save response1", 0, 0)
          /\ Touch(e, "serve", {"log"})
          /\ serve' = [serve EXCEPT ![e].pc = "answer", ![e].resp = serve[e].resp1]
     ELSE /\ serve' = [serve EXCEPT ![e].pc = "answer"]
          /\ UNCHANGED <<logs, touched>>
  /\ UNCHANGED <<variant, id, detached, shared, rws, disk, client, backend, handles, reqs, drainVars, idVars, unitVars>>

\* Lines 140-151: copy resp.Header, WriteHeader(resp.StatusCode), io.Copy(w,
\* resp.Body) (whose error is assigned to err and logged).  A nil resp is a
\* nil pointer dereference: the handler panics.
Answer(e) ==
  /\ variant = "client"
  /\ serve[e].pc = "answer"
  /\ IF serve[e].resp.nil
     THEN /\ serve' = [serve EXCEPT ![e].pc = "panicked", ![e].outcome = "Panicked"]
          /\ UNCHANGED <<client, shared, logs, touched>>
     ELSE \E copied \in 0..Len(serve[e].resp.body) :
            LET resp == serve[e].resp
                cw1 == CallerWriteHeader(CallerSetHeader(client[e], resp.header, "serve"),
                                         resp.status, "serve")
                ok == copied = Len(resp.body)
            IN /\ client' = [client EXCEPT ![e] =
                    IF copied = 0 THEN cw1 ELSE CallerWrite(cw1, Prefix(resp.body, copied), "serve")]
               /\ shared' = [shared EXCEPT ![e].err = IF ok THEN "nil" ELSE "writing response"]
               /\ IF ok THEN UNCHANGED <<logs, touched>>
                  ELSE Log(e, "writing response", 0, 0) /\ Touch(e, "serve", {"log"})
               /\ serve' = [serve EXCEPT ![e].pc = "done",
                              ![e].outcome = IF ok THEN "Done" ELSE "CallerGone"]
  /\ UNCHANGED <<variant, id, detached, rws, disk, backend, handles, reqs, drainVars, idVars, unitVars>>

\* The handler joining its goroutine before it answers.
ServeHTTP_AnswerJoin(e) == detached[e].pc \in {"end", "panicked"} /\ Answer(e)
ServeHTTP_Answer(e) == Answer(e)

\* ------------------------------------------- main.go: the goroutine (113-131)
\* Line 114, the call and the assignment: r, err = readReq() stores into the
\* r and err of ServeHTTP.
Go_ReadReq(e) ==
  /\ variant = "client"
  /\ detached[e].pc = "readReq"
  /\ \E out \in ReadReqOutcomes :
       LET res == readReq(disk[e][0], out) IN
       /\ shared' = [shared EXCEPT ![e] = [r |-> res.req, err |-> res.err]]
       /\ handles' = [handles EXCEPT ![e] = readReqFh(@, "r2", disk[e][0], Inbound, out)]
       /\ reqs' = [reqs EXCEPT ![e] = IF res.req.nil THEN NilObject(@, 2)
                                      ELSE NewObject(@, 2, RequestObject(res.req, "r2"))]
       /\ detached' = [detached EXCEPT ![e].pc = "checkErr", ![e].err = res.err]
  /\ UNCHANGED <<variant, id, serve, rws, disk, client, backend, logs, touched, drainVars, idVars, unitVars>>

\* Line 114, the condition, and 115-117: err != nil reads the shared err.
Go_CheckErr(e) ==
  /\ variant = "client"
  /\ detached[e].pc = "checkErr"
  /\ IF IsErr(shared[e].err)
     THEN /\ Log(e, "error reading request (2.)", 0, 0)
          /\ Touch(e, "go", {"log"})
          /\ detached' = [detached EXCEPT ![e].pc = "end", ![e].outcome = "SecondaryFailed"]
     ELSE /\ detached' = [detached EXCEPT ![e].pc = "secondary"]
          /\ UNCHANGED <<logs, touched>>
  /\ UNCHANGED <<variant, id, serve, shared, rws, disk, client, backend, handles, reqs, drainVars, idVars, unitVars>>

\* Lines 118-122: resp2, err := ds.secondary.Do(r).  A nil r (its readReq
\* failed, the shared err was overwritten) is a nil pointer dereference.
Go_Secondary(e) ==
  /\ variant = "client"
  /\ detached[e].pc = "secondary"
  /\ IF shared[e].r.nil
     THEN /\ detached' = [detached EXCEPT ![e].pc = "panicked", ![e].outcome = "Panicked"]
          /\ UNCHANGED <<backend, logs, touched, handles, reqs>>
     ELSE \E ans \in SecondaryAnswers \cup {NoAnswer} :
            /\ reqs' = [reqs EXCEPT ![e] = Dispatched(MutateHeader(@, 2), 2, ~ans.nil)]
            /\ handles' = [handles EXCEPT ![e] = CloseBody(@, reqs[e], 2)]
            /\ IF ans.nil
               THEN /\ backend' = [backend EXCEPT ![e].secondary = "failed",
                                                  ![e].req2 = Sent(reqs[e], 2)]
                    /\ Log(e, "call secondary", 0, 0)
                    /\ Touch(e, "go", {"log"})
                    /\ detached' = [detached EXCEPT ![e].pc = "end", ![e].outcome = "SecondaryFailed"]
               ELSE /\ backend' = [backend EXCEPT ![e].secondary = "answered", ![e].answer2 = ans,
                                                  ![e].req2 = Sent(reqs[e], 2)]
                    /\ detached' = [detached EXCEPT ![e].pc = "saveResp", ![e].resp2 = ans]
                    /\ UNCHANGED <<logs, touched>>
  /\ UNCHANGED <<variant, id, serve, shared, rws, disk, client, drainVars, idVars, unitVars>>

\* Lines 123-126: saveResp(resp2, 2), which is saveResponse(base.2, resp2).
Go_SaveResp(e) ==
  /\ variant = "client"
  /\ detached[e].pc = "saveResp"
  /\ \E out \in SaveResponseOutcomes(detached[e].resp2) :
       LET res == saveResponse(detached[e].resp2, out) IN
       /\ disk' = [disk EXCEPT ![e][2] = res.file]
       /\ handles' = [handles EXCEPT ![e] = saveResponseFh(@, "f2", detached[e].resp2, out)]
       /\ IF IsErr(res.err)
          THEN /\ Log(e, "save secondary response", 0, 0)
               /\ Touch(e, "go", Written(res.file, 2) \cup {"log"})
               /\ detached' = [detached EXCEPT ![e].pc = "end", ![e].outcome = "SecondaryFailed"]
          ELSE /\ Touch(e, "go", Written(res.file, 2))
               /\ detached' = [detached EXCEPT ![e].pc = "compare"]
               /\ UNCHANGED logs
  /\ UNCHANGED <<variant, id, serve, shared, rws, client, backend, reqs, drainVars, idVars, unitVars>>

\* Lines 128-130: the comparison of resp2.StatusCode with sc.
Go_Compare(e) ==
  /\ variant = "client"
  /\ detached[e].pc = "compare"
  /\ IF detached[e].resp2.status # detached[e].sc
     THEN /\ Log(e, "status code mismatch", detached[e].sc, detached[e].resp2.status)
          /\ Touch(e, "go", {"log"})
     ELSE UNCHANGED <<logs, touched>>
  /\ detached' = [detached EXCEPT ![e].pc = "end", ![e].outcome = "Compared"]
  /\ UNCHANGED <<variant, id, serve, shared, rws, disk, client, backend, handles, reqs, drainVars, idVars, unitVars>>

\* ============================================== part_000: ServeHTTP
\* saveRequestResponse(r, 2), lines 137-168, with writeRequest (213-223):
\* write N.0, then for i = 0, 1: os.Open(N.0), http.ReadRequest, os.Create of
\* N.(i+1).  loop names the call of the loop that fails, if one does.
LoopOutcomes == {"ok", "open0", "create1", "open1", "create2"}
CaptureOutcomes(r) ==
  {[kind |-> o.kind, n |-> o.n, loop |-> "ok"] : o \in {x \in SaveRequestOutcomes(r) : x.kind # "ok"}}
  \cup {[kind |-> "ok", n |-> Len(RequestWrite(r)), loop |-> l] : l \in LoopOutcomes}
saveRequestResponse(r, out) ==
  LET w == saveRequest(r, out)
      parsed == ReadRequest(w.file.data)
      loopErr == IF parsed.nil THEN "ReadRequest"
                 ELSE IF out.loop = "ok" THEN "nil" ELSE "saveRequestResponse: " \o out.loop
  IN IF IsErr(w.err)
     THEN [err |-> w.err, files |-> [NoFiles EXCEPT ![0] = w.file]]
     ELSE [err |-> loopErr,
           files |-> [s \in Slots |->
                       CASE s = 0 -> w.file
                         [] s = 1 -> IF ~parsed.nil /\ out.loop \in {"ok", "open1", "create2"}
                                     THEN File(<<>>) ELSE Absent
                         [] OTHER -> IF ~parsed.nil /\ out.loop = "ok" THEN File(<<>>) ELSE Absent]]

\* saveRequestResponse, its handles: writeRequest's on N.0, then per round of
\* the loop the reader of N.0 (147) and the handle of os.Create (160); every
\* return inside the loop (149, 152, 163) leaves what was opened before open.
saveRequestResponseFh(hs, r, out) ==
  LET w == saveRequest(r, out)
      parsed == ReadRequest(w.file.data)
      h0 == saveRequestFh(hs, out)
      h1 == OsOpen(h0, "r1", w.file, r)
      h2 == OsCreate(h1, "f1")
      h3 == OsOpen(h2, "r2", w.file, r)
      h4 == OsCreate(h3, "f2")
  IN CASE IsErr(w.err) \/ out.loop = "open0" -> h0
       [] parsed.nil \/ out.loop = "create1" -> h1
       [] out.loop = "open1" -> h2
       [] out.loop = "create2" -> h3
       [] OTHER -> h4
\* saveRequestResponse, its requests: requests[i] of http.ReadRequest (151)
\* with Body tied to the round's reader (154-157).
saveRequestResponseObjs(rq, r, out) ==
  LET w == saveRequest(r, out)
      parsed == ReadRequest(w.file.data)
      q1 == NewObject(rq, 1, RequestObject(parsed, "r1"))
      q2 == NewObject(q1, 2, RequestObject(parsed, "r2"))
  IN CASE IsErr(w.err) \/ out.loop = "open0" \/ parsed.nil -> rq
       [] out.loop \in {"create1", "open1"} -> q1
       [] OTHER -> q2

\* Both respWriters get the caller's writer.
AttachCallerBoth(pair) == <<[pair[1] EXCEPT !.w = TRUE], [pair[2] EXCEPT !.w = TRUE]>>
\* respWriters[0].w = w (line 117): only the first respWriter gets the
\* caller's writer.
AttachCaller(pair) == <<[pair[1] EXCEPT !.w = TRUE], pair[2]>>

\* Lines 110-118: capture; on failure answer 500 and return.
RP_ServeHTTP_Capture(e) ==
  /\ variant = "proxy"
  /\ serve[e].pc = "idle"
  /\ nextID(id) = Num(e)
  /\ id' = nextID(id)
  /\ \E out \in CaptureOutcomes(Inbound) :
       LET res == saveRequestResponse(Inbound, out)
           wrote == UNION {Written(res.files[s], s) : s \in Slots}
       IN
       /\ disk' = [disk EXCEPT ![e] = res.files]
       /\ handles' = [handles EXCEPT ![e] = saveRequestResponseFh(@, Inbound, out)]
       /\ reqs' = [reqs EXCEPT ![e] = saveRequestResponseObjs(@, Inbound, out)]
       /\ IF IsErr(res.err)
          THEN /\ Log(e, "error saving request", 0, 0)
               /\ Touch(e, "serve", wrote \cup {"log"})
               /\ client' = [client EXCEPT ![e] =
                    HttpError(@, "error saving request", StatusInternalServerError, "serve")]
               /\ serve' = [serve EXCEPT ![e].pc = "done", ![e].outcome = "CaptureFailed",
                                         ![e].captureErr = res.err]
               /\ UNCHANGED rws
          ELSE /\ Touch(e, "serve", wrote)
               /\ rws' = [rws EXCEPT ![e] = AttachCaller(<<NewRespWriter, NewRespWriter>>)]
               /\ serve' = [serve EXCEPT ![e].pc = "primary"]
               /\ UNCHANGED <<logs, client>>
  /\ UNCHANGED <<variant, detached, shared, backend, drainVars, idVars, unitVars>>

\* Lines 120-135 but the goroutine's body: ds.primary.ServeHTTP(respWriters[0],
\* requests[0]), then the go statement with sc = respWriters[0].status, then
\* the return (and the deferred Close of N.1).
RP_ServeHTTP_Primary(e) ==
  /\ variant = "proxy"
  /\ serve[e].pc = "primary"
  /\ \E ans \in PrimaryAnswers \cup {NoAnswer}, diskOk \in BOOLEAN :
       LET b == ReverseProxyServe(Bundle(rws[e][1], client[e], disk[e][1], diskOk, "serve"), ans)
       IN /\ backend' = [backend EXCEPT ![e].primary = IF ans.nil THEN "failed" ELSE "answered",
                                        ![e].answer1 = ans, ![e].req1 = Sent(reqs[e], 1)]
          /\ reqs' = [reqs EXCEPT ![e] = Dispatched(MutateHeader(@, 1), 1, ~ans.nil)]
          /\ handles' = [handles EXCEPT ![e] = FhClose(CloseBody(@, reqs[e], 1), "f1")]
          /\ rws' = [rws EXCEPT ![e][1] = b.rw]
          /\ client' = [client EXCEPT ![e] = b.cw]
          /\ disk' = [disk EXCEPT ![e][1] = b.file]
          /\ IF ans.nil
             THEN /\ Log(e, "http: proxy error", 0, 0)
                  /\ Touch(e, "serve", {"log"} \cup (IF b.file # disk[e][1] THEN {"N.1"} ELSE {}))
             ELSE /\ Touch(e, "serve", IF b.file # disk[e][1] THEN {"N.1"} ELSE {})
                  /\ UNCHANGED logs
          /\ serve' = [serve EXCEPT ![e].pc = "done", ![e].resp1 = ans,
                         ![e].outcome = IF ans.nil THEN "PrimaryFailed" ELSE "Done"]
          /\ detached' = [detached EXCEPT ![e].pc = "secondary", ![e].sc = b.rw.status]
  /\ UNCHANGED <<variant, id, shared, drainVars, idVars, unitVars>>

\* Line 124: ds.secondary.ServeHTTP(w, r) on respWriters[1], requests[1].
RP_Go_Secondary(e) ==
  /\ variant = "proxy"
  /\ detached[e].pc = "secondary"
  /\ \E ans \in SecondaryAnswers \cup {NoAnswer}, diskOk \in BOOLEAN :
       LET b == ReverseProxyServe(Bundle(rws[e][2], client[e], disk[e][2], diskOk, "go"), ans)
       IN /\ backend' = [backend EXCEPT ![e].secondary = IF ans.nil THEN "failed" ELSE "answered",
                                        ![e].answer2 = ans, ![e].req2 = Sent(reqs[e], 2)]
          /\ reqs' = [reqs EXCEPT ![e] = Dispatched(MutateHeader(@, 2), 2, ~ans.nil)]
          /\ handles' = [handles EXCEPT ![e] = CloseBody(@, reqs[e], 2)]
          /\ rws' = [rws EXCEPT ![e][2] = b.rw]
          /\ client' = [client EXCEPT ![e] = b.cw]
          /\ disk' = [disk EXCEPT ![e][2] = b.file]
          /\ IF ans.nil
             THEN /\ Log(e, "http: proxy error", 0, 0)
                  /\ Touch(e, "go", {"log"} \cup (IF b.file # disk[e][2] THEN {"N.2"} ELSE {}))
             ELSE /\ Touch(e, "go", IF b.file # disk[e][2] THEN {"N.2"} ELSE {})
                  /\ UNCHANGED logs
          /\ detached' = [detached EXCEPT ![e].pc = "compare", ![e].resp2 = ans]
  /\ UNCHANGED <<variant, id, serve, shared, drainVars, idVars, unitVars>>

\* Lines 125-133 and the deferred Close of N.2 (123): on different statuses log the
\* mismatch, else os.Remove base+"0", base+"1", base+"2" (errors dropped:
\* removed are the files whose removal succeeds).
RP_Go_Compare(e) ==
  /\ variant = "proxy"
  /\ detached[e].pc = "compare"
  /\ IF rws[e][2].status # detached[e].sc
     THEN /\ Log(e, "CODE mismatch", detached[e].sc, rws[e][2].status)
          /\ Touch(e, "go", {"log"})
          /\ UNCHANGED disk
     ELSE /\ \E removed \in SUBSET Slots :
               disk' = [disk EXCEPT ![e] = [s \in Slots |-> IF s \in removed THEN Absent ELSE @[s]]]
          /\ UNCHANGED <<logs, touched>>
  /\ handles' = [handles EXCEPT ![e] = FhClose(@, "f2")]
  /\ detached' = [detached EXCEPT ![e].pc = "end", ![e].outcome = "Compared"]
  /\ UNCHANGED <<variant, id, serve, shared, rws, client, backend, reqs, drainVars, idVars, unitVars>>

\* ===================================== httpdump.go: the draining listener
Conns == 1..MaxConns
NewConn == [state |-> "none", closes |-> 0, afterClose |-> FALSE]

DrainInit ==
  /\ listening = TRUE
  /\ wg = 0
  /\ conns = [c \in Conns |-> NewConn]
  /\ mainpc = "serving"
  /\ sigpc = "waiting"
  /\ wgPanic = FALSE

Running == mainpc # "exited" /\ ~wgPanic

\* sync.WaitGroup.Add(delta): the counter is changed, and a negative result
\* panics.
WgAdd(delta) ==
  /\ wg' = wg + delta
  /\ wgPanic' = (wgPanic \/ wg + delta < 0)

\* stoppableListener.Accept, line 245: sl.Listener.Accept() returns a
\* connection; an open listener only.
Accept_Underlying(c) ==
  /\ Running
  /\ mainpc = "serving"
  /\ listening
  /\ conns[c].state = "none"
  /\ \A d \in Conns : d < c => conns[d].state # "none"
  /\ conns' = [conns EXCEPT ![c].state = "pending", ![c].afterClose = ~listening]
  /\ mainpc' = "accepted"
  /\ UNCHANGED <<listening, wg, sigpc, wgPanic, dispatchVars, idVars, unitVars>>

\* stoppableListener.Accept, lines 249-250: sl.Add(1) and the return of the
\* stoppableConn to http.Serve.
Accept_Add(c) ==
  /\ Running
  /\ mainpc = "accepted"
  /\ conns[c].state = "pending"
  /\ WgAdd(1)
  /\ conns' = [conns EXCEPT ![c].state = "open"]
  /\ mainpc' = "serving"
  /\ UNCHANGED <<listening, sigpc, dispatchVars, idVars, unitVars>>

\* stoppableListener.Accept, lines 245-248 on a closed listener: the error
\* ends http.Serve (main.go line 68) and main goes on to sl.Wait().
Accept_Error ==
  /\ Running
  /\ mainpc = "serving"
  /\ ~listening
  /\ mainpc' = "waiting"
  /\ UNCHANGED <<listening, wg, conns, sigpc, wgPanic, dispatchVars, idVars, unitVars>>

\* main.go lines 69-70: sl.Wait() returns when the counter is zero.
Main_Wait ==
  /\ Running
  /\ mainpc = "waiting"
  /\ wg = 0
  /\ mainpc' = "exited"
  /\ UNCHANGED <<listening, wg, conns, sigpc, wgPanic, dispatchVars, idVars, unitVars>>

\* main.go lines 60-66, the interrupt goroutine: <-ch; sl.Add(1)
Sig_Add ==
  /\ Running
  /\ sigpc = "waiting"
  /\ WgAdd(1)
  /\ sigpc' = "added"
  /\ UNCHANGED <<listening, conns, mainpc, dispatchVars, idVars, unitVars>>

\* sl.Close(): the embedded net.Listener's Close
Sig_Close ==
  /\ Running
  /\ sigpc = "added"
  /\ listening' = FALSE
  /\ sigpc' = "closed"
  /\ UNCHANGED <<wg, conns, mainpc, wgPanic, dispatchVars, idVars, unitVars>>

\* sl.Done()
Sig_Done ==
  /\ Running
  /\ sigpc = "closed"
  /\ WgAdd(-1)
  /\ sigpc' = "done"
  /\ UNCHANGED <<listening, conns, mainpc, dispatchVars, idVars, unitVars>>

\* stoppableConn.Close, lines 253-256: sc.wg.Done() on every call, then the
\* embedded Conn's Close.
Close(c) ==
  /\ Running
  /\ conns[c].state = "open"
  /\ conns[c].closes < MaxCloses
  /\ WgAdd(-1)
  /\ conns' = [conns EXCEPT ![c].closes = @ + 1]
  /\ UNCHANGED <<listening, mainpc, sigpc, dispatchVars, idVars, unitVars>>

\* ============================================== nextID under concurrency
Callers == 1..MaxCalls
NewCall == [pc |-> "idle", ret |-> Num(0), no |-> Num(0), after |-> {}]

IdInit ==
  /\ calls = [t \in Callers |-> NewCall]
  /\ ncalls = Num(0)

\* A caller enters nextID; after: the calls that have returned by then.
NextID_Call(t) ==
  /\ calls[t].pc = "idle"
  /\ calls' = [calls EXCEPT ![t].pc = "called",
                 ![t].after = {u \in Callers : calls[u].pc = "returned"}]
  /\ UNCHANGED <<ncalls, dispatchVars, drainVars, unitVars>>

\* main.go 223-225, part_000 225-227: return atomic.AddUint32(&ds.id, 1); no is
\* the call's number among all calls ever made on ds.
NextID_Add(t) ==
  /\ calls[t].pc = "called"
  /\ id' = nextID(id)
  /\ ncalls' = Succ(ncalls)
  /\ calls' = [calls EXCEPT ![t].pc = "added", ![t].ret = nextID(id), ![t].no = Succ(ncalls)]
  /\ UNCHANGED <<variant, serve, detached, shared, rws, disk, client, backend, logs, touched,
               handles, reqs, drainVars, unitVars>>

NextID_Return(t) ==
  /\ calls[t].pc = "added"
  /\ calls' = [calls EXCEPT ![t].pc = "returned"]
  /\ UNCHANGED <<ncalls, dispatchVars, drainVars, unitVars>>

\* ================================================= multiCloser.Close, stepwise
NewMC(closers) ==
  [closers |-> closers, pc |-> "idle", i |-> 1, err |-> "nil", called |-> <<>>, ret |-> "none"]
\* The multiClosers of up to MaxClosers closers, by what each Close returns.
MultiClosers == UNION {[1..n -> CloseResults] : n \in 0..MaxClosers}

\* mc.Close() is called: var err error (232).
MC_Call ==
  /\ mc.pc = "idle"
  /\ mc' = [mc EXCEPT !.pc = "loop", !.i = 1, !.err = "nil"]
  /\ UNCHANGED <<wr, dispatchVars, drainVars, idVars>>

\* One round of the loop (233-237): c.Close() and the update of err.
MC_CloseOne ==
  /\ mc.pc = "loop"
  /\ mc.i <= Len(mc.closers)
  /\ mc' = [mc EXCEPT !.err = KeepFirst(@, mc.closers[mc.i]),
                      !.called = Append(@, mc.i), !.i = @ + 1]
  /\ UNCHANGED <<wr, dispatchVars, drainVars, idVars>>

\* return err (238)
MC_Return ==
  /\ mc.pc = "loop"
  /\ mc.i > Len(mc.closers)
  /\ mc' = [mc EXCEPT !.pc = "returned", !.ret = mc.err]
  /\ UNCHANGED <<wr, dispatchVars, drainVars, idVars>>

\* ================================================ respWriter under its calls
\* A respWriter over an empty capture file, with or without the caller's
\* writer, and the calls made on it so far.
NewWr(attached) ==
  [b |-> Bundle([NewRespWriter EXCEPT !.w = attached], NewCaller, File(<<>>), TRUE, "serve"),
   calls |-> <<>>]
Chunks == {"a", "b"}

\* w.Write(p)
RW_Write(p) ==
  /\ Len(wr.calls) < MaxWrites
  /\ wr' = [b |-> Write(wr.b, <<p>>), calls |-> Append(wr.calls, "Write")]
  /\ UNCHANGED <<mc, dispatchVars, drainVars, idVars>>

\* w.WriteHeader(status)
RW_WriteHeader(status) ==
  /\ Len(wr.calls) < MaxWrites
  /\ wr' = [b |-> WriteHeader(wr.b, status), calls |-> Append(wr.calls, "WriteHeader")]
  /\ UNCHANGED <<mc, dispatchVars, drainVars, idVars>>

UnitInit == mc = NewMC(<<>>) /\ wr = NewWr(FALSE)

\* ========================================================= specifications
Init == DispatchInit /\ DrainInit /\ IdInit /\ UnitInit

ServeStep(e) ==
  \/ ServeHTTP_Capture(e)
  \/ ServeHTTP_ReadReq(e)
  \/ ServeHTTP_Primary(e)
  \/ ServeHTTP_SaveResp(e)
  \/ ServeHTTP_CheckErr(e)
  \/ ServeHTTP_Answer(e)
  \/ RP_ServeHTTP_Capture(e)
  \/ RP_ServeHTTP_Primary(e)

GoStep(e) ==
  \/ Go_ReadReq(e)
  \/ Go_CheckErr(e)
  \/ Go_Secondary(e)
  \/ Go_SaveResp(e)
  \/ Go_Compare(e)
  \/ RP_Go_Secondary(e)
  \/ RP_Go_Compare(e)

Next == \E e \in Exchanges : ServeStep(e) \/ GoStep(e)

\* The proxy handling exchanges: both source variants.
Spec == Init /\ [][Next]_vars

DrainNext ==
  \/ \E c \in Conns : Accept_Underlying(c) \/ Accept_Add(c) \/ Close(c)
  \/ Accept_Error
  \/ Main_Wait
  \/ Sig_Add
  \/ Sig_Close
  \/ Sig_Done

\* main, http.Serve's accept loop, the interrupt goroutine and the tasks that
\* close connections.
SpecDrain == Init /\ [][DrainNext]_vars

\* The state of ds after k nextID calls, for k = 0 and for k just below the
\* wrap of the uint32 counter.
IdStarts == {Num(0), [hi |-> Limb - 1, lo |-> Limb - 3]}
InitId ==
  /\ ExchangeInit
  /\ DrainInit
  /\ calls = [t \in Callers |-> NewCall]
  /\ \E k \in IdStarts : id = k /\ ncalls = k
  /\ UnitInit

IdNext == \E t \in Callers : NextID_Call(t) \/ NextID_Add(t) \/ NextID_Return(t)

\* Concurrent callers of nextID on one dualServer.
SpecId == InitId /\ [][IdNext]_vars

InitClose ==
  /\ DispatchInit /\ DrainInit /\ IdInit
  /\ wr = NewWr(FALSE)
  /\ \E c \in MultiClosers : mc = NewMC(c)

CloseNext == MC_Call \/ MC_CloseOne \/ MC_Return

\* One call of multiCloser.Close, for every multiCloser of the bound.
SpecClose == InitClose /\ [][CloseNext]_vars

InitWriter ==
  /\ DispatchInit /\ DrainInit /\ IdInit
  /\ mc = NewMC(<<>>)
  /\ \E attached \in BOOLEAN : wr = NewWr(attached)

WriterNext ==
  \/ \E p \in Chunks : RW_Write(p)
  \/ \E status \in {StatusOK, StatusInternalServerError} : RW_WriteHeader(status)

\* A handler's calls on one respWriter.
SpecWriter == InitWriter /\ [][WriterNext]_vars

\* ================================================================= claims
Finished(e) == serve[e].pc \in {"done", "panicked"}
GoEnded(e) == detached[e].pc \in {"end", "panicked"}
MismatchLogged(e) == \E l \in logs[e] : l.msg \in {"status code mismatch", "CODE mismatch"}

\* C1 Primary fidelity: once the handler has ended an exchange whose primary
\* backend answered (and the caller's connection took the whole body), the
\* caller has exactly the primary's status, header set and body, whatever
\* happened to the secondary call and to the capture of the response in N.1.
PrimaryFidelity ==
  \A e \in Exchanges :
    (Finished(e) /\ backend[e].primary = "answered" /\ serve[e].outcome # "CallerGone")
      => /\ client[e].status = backend[e].answer1.status
         /\ client[e].header = backend[e].answer1.header
         /\ client[e].body = backend[e].answer1.body

\* C2 Fail-fast: an exchange whose primary dispatch failed never has its
\* secondary backend contacted.
FailFast ==
  \A e \in Exchanges : backend[e].primary = "failed" => backend[e].secondary = "none"

\* C3 A failed primary dispatch is answered with the gateway-error status 502
\* and the failure detail in the body, a status different from the 500 of a
\* failed capture.
GatewayErrorOnPrimaryFailure ==
  \A e \in Exchanges :
    (Finished(e) /\ backend[e].primary = "failed")
      => /\ client[e].status = StatusBadGateway
         /\ client[e].status # StatusInternalServerError
         /\ client[e].body # <<>>

\* What C4 promises of an exchange whose capture failed.
StoppedWithServerError(e) ==
  /\ client[e].status = StatusInternalServerError
  /\ serve[e].pc = "done"
  /\ backend[e].primary = "none"
  /\ backend[e].secondary = "none"

\* C4 as stated: a failed capture of the inbound request, which includes a
\* failure to open or parse any replay of N.0 (the goroutine's of main.go
\* too), is answered with 500, ends the exchange and contacts no backend.
CaptureFailureStopsExchange ==
  \A e \in Exchanges :
    (serve[e].captureErr # "nil" \/ detached[e].err # "nil") => StoppedWithServerError(e)

\* C4 amended: a capture that fails in the serving task before the primary
\* dispatch (creating, writing or closing N.0, opening or parsing a replay
\* there, and in part_000 creating N.1 or N.2) is answered with 500, ends the
\* exchange, and neither backend is contacted nor the goroutine started.
CaptureFailureStopsExchangeServing ==
  \A e \in Exchanges :
    serve[e].captureErr # "nil"
      => StoppedWithServerError(e) /\ serve[e].outcome = "CaptureFailed" /\ detached[e].pc = "none"

\* C4 witness: a replay of a written N.0 could not be opened, and the caller
\* has its 500.
CaptureFailedWitness ==
  \E e \in Exchanges :
    /\ serve[e].captureErr \in {"readReq: open", "saveRequestResponse: open1"}
    /\ disk[e][0].exists
    /\ client[e].status = StatusInternalServerError

\* The connections and the interrupt handler that hold the counter up:
\* accepted and not closed, or between sl.Add(1) and sl.Done().
Outstanding ==
  Cardinality({c \in Conns : conns[c].state = "open" /\ conns[c].closes = 0})
    + (IF sigpc \in {"added", "closed"} THEN 1 ELSE 0)

\* C5 Idempotent close: however often an accepted connection is closed, the
\* counter went down by one for it, so it counts what is outstanding and never
\* goes negative.
IdempotentClose == wg = Outstanding /\ wg >= 0

\* C6 Drain on shutdown: no Accept succeeds on the closed listener, and main
\* exits only when every connection Accept returned has been closed.
DrainOnShutdown ==
  /\ \A c \in Conns : ~conns[c].afterClose
  /\ mainpc = "exited" => \A c \in Conns : conns[c].state = "open" => conns[c].closes >= 1

Returned(t) == calls[t].pc \in {"added", "returned"}
\* Two calls of nextID got different, ordered ids and different base names.
Distinct(a, b) ==
  /\ calls[a].ret # calls[b].ret
  /\ Sprintf09d(calls[a].ret) # Sprintf09d(calls[b].ret)
  /\ a \in calls[b].after => Less(calls[a].ret, calls[b].ret)

\* C7 as stated: for call sequences of any length, no two nextID calls return
\* the same id, a call started after another returned gets a greater id, and
\* the exchanges' base names differ.
NextIDUniqueMonotonic ==
  \A a, b \in Callers : (a # b /\ Returned(a) /\ Returned(b)) => Distinct(a, b)

\* C7 amended: the same for the first 2^32 - 1 calls on a dualServer, before
\* the uint32 counter wraps to 0.
NextIDUniqueMonotonicBeforeWrap ==
  \A a, b \in Callers :
    (a # b /\ Returned(a) /\ Returned(b) /\ IsUint32(calls[a].no) /\ IsUint32(calls[b].no))
      => Distinct(a, b)

\* C7 witness: the last call before the wrap, started after another returned.
NextIDWitness ==
  \E a, b \in Callers :
    /\ calls[b].pc = "returned"
    /\ a \in calls[b].after
    /\ calls[b].ret = MaxUint32
    /\ Less(calls[a].ret, calls[b].ret)

\* C8 The goroutine never calls the caller's writer: every call on it is the
\* serving task's, and the goroutine writes only to N.2 and the log.
DetachedNeverTouchesCaller ==
  \A e \in Exchanges :
    /\ client[e].by \subseteq {"serve"}
    /\ \A p \in touched[e] : p[1] = "go" => p[2] \in {"N.2", "log"}

\* C8 witness: the goroutine got the secondary's answer, wrote N.2 and ended,
\* and the caller was answered.
DetachedWitness ==
  \E e \in Exchanges :
    /\ detached[e].pc = "end"
    /\ backend[e].secondary = "answered"
    /\ <<"go", "N.2">> \in touched[e]
    /\ client[e].by = {"serve"}
    /\ client[e].status # 0

\* C9 The serving task never waits for the goroutine: whatever the goroutine
\* does or fails to do, a handler that has started and not returned can take
\* its next step.
ServingNeverWaits ==
  \A e \in Exchanges : (serve[e].pc \notin {"idle", "done", "panicked"}) => ENABLED ServeStep(e)

\* C9 witness: the handler has returned with the caller answered while the
\* goroutine has not yet called the secondary backend.
DoneWhileDetachedRuns ==
  \E e \in Exchanges :
    /\ serve[e].pc = "done"
    /\ serve[e].outcome = "Done"
    /\ client[e].body = backend[e].answer1.body
    /\ detached[e].pc \in {"readReq", "checkErr", "secondary"}
    /\ backend[e].secondary = "none"

\* C10 Match outcome: both backends answered with equal statuses and both
\* tasks have ended: no mismatch is logged, N.0 and N.1 exist, N.2 is absent.
MatchOutcome ==
  \A e \in Exchanges :
    ( /\ Finished(e) /\ GoEnded(e)
      /\ backend[e].primary = "answered" /\ backend[e].secondary = "answered"
      /\ backend[e].answer1.status = backend[e].answer2.status )
      => /\ ~MismatchLogged(e)
         /\ disk[e][0].exists /\ disk[e][1].exists
         /\ ~disk[e][2].exists

\* C11 Mismatch outcome: in an exchange whose primary answered and whose tasks
\* have both ended, a mismatch is logged exactly when the secondary's response
\* was obtained with a status other than the primary's; the entry records both
\* statuses, and N.0, N.1 and N.2 are all still there.
MismatchOutcome ==
  \A e \in Exchanges :
    (Finished(e) /\ GoEnded(e) /\ backend[e].primary = "answered")
      => /\ MismatchLogged(e) <=>
              ( /\ backend[e].secondary = "answered"
                /\ backend[e].answer2.status # backend[e].answer1.status )
         /\ \A l \in logs[e] :
              l.msg \in {"status code mismatch", "CODE mismatch"}
                => l.a = backend[e].answer1.status /\ l.b = backend[e].answer2.status
         /\ MismatchLogged(e) => \A s \in Slots : disk[e][s].exists

\* C12 Scenario C artifacts: in an exchange whose primary dispatch failed, N.0
\* exists and no task ever created N.1 or N.2.
ScenarioCArtifacts ==
  \A e \in Exchanges :
    backend[e].primary = "failed"
      => /\ disk[e][0].exists
         /\ ~disk[e][1].exists /\ ~disk[e][2].exists
         /\ \A p \in touched[e] : p[2] \notin {"N.1", "N.2"}

\* The serving task is past its capture of the primary's response.
PrimaryCaptureCompleted(e) == serve[e].pc \notin {"primary", "saveResp"}

\* C15 The goroutine's comparison of the statuses has happened only in
\* exchanges whose serving task has completed the capture of the primary's
\* response: in no interleaving is the comparison done while N.1 is yet to be
\* written.
ComparisonAfterCaptures ==
  \A e \in Exchanges : detached[e].outcome = "Compared" => PrimaryCaptureCompleted(e)

\* The goroutine could not get the secondary's response, or could not save it.
SecondaryFailure(e) ==
  \/ backend[e].secondary = "failed"
  \/ LogEntry("save secondary response", 0, 0) \in logs[e]

\* C16 When the secondary dispatch or the capture of its response fails, the
\* goroutine ends in SecondaryFailed: it is never Compared, no mismatch is
\* logged, no file of the exchange is removed and the caller's writer is not
\* called by it.
SecondaryFailureEndsDetached ==
  \A e \in Exchanges :
    (GoEnded(e) /\ SecondaryFailure(e))
      => /\ detached[e].outcome = "SecondaryFailed"
         /\ ~MismatchLogged(e)
         /\ disk[e][0].exists
         /\ \A s \in {1, 2} : <<"serve", SlotName(s)>> \in touched[e] => disk[e][s].exists
         /\ client[e].by \subseteq {"serve"}

\* C18 main.go ServeHTTP: the serving task's check after saveResp(resp1, 1)
\* takes the error branch exactly when that call failed, and the goroutine's
\* check after readReq() takes the error branch exactly when its own readReq
\* failed, in every interleaving.
NoSharedErr ==
  \A e \in Exchanges :
    variant = "client"
      => /\ (serve[e].pc \in {"answer", "done", "panicked"} /\ backend[e].primary = "answered")
              => (LogEntry("save response1", 0, 0) \in logs[e] <=> serve[e].saveErr # "nil")
         /\ detached[e].pc \notin {"none", "readReq", "checkErr"}
              => (LogEntry("error reading request (2.)", 0, 0) \in logs[e] <=> detached[e].err # "nil")

\* The request a replay was made of, as the backends must see it.
Captured == Response(0, Inbound.header, Inbound.body)

\* C13 Replay isolation: the two replays of an exchange are different request
\* objects over different handles, and whatever the primary's dispatch did to
\* its replay (header changed, body read and closed), the secondary's replay
\* has the captured header and body until it is dispatched, and that is what
\* the secondary backend is sent.
ReplayIsolation ==
  \A e \in Exchanges :
    LET rq == reqs[e] IN
    /\ (rq.refs[1] # 0 /\ rq.refs[2] # 0)
         => /\ rq.refs[1] # rq.refs[2]
            /\ rq.objs[rq.refs[1]].fh # rq.objs[rq.refs[2]].fh
    /\ (rq.refs[2] # 0 /\ backend[e].secondary = "none")
         => /\ rq.objs[rq.refs[2]].header = Inbound.header
            /\ rq.objs[rq.refs[2]].body = Inbound.body
            /\ ~rq.objs[rq.refs[2]].closed
            /\ handles[e][rq.objs[rq.refs[2]].fh].state = "open"
    /\ backend[e].secondary # "none" => backend[e].req2 = Captured
    /\ backend[e].primary # "none" => backend[e].req1 = Captured

\* C13 witness: the primary's replay was changed, read and closed by its
\* dispatch, and the secondary was then sent the whole captured request.
ReplayIsolationWitness ==
  \E e \in Exchanges :
    LET rq == reqs[e] IN
    /\ backend[e].primary = "answered" /\ backend[e].secondary = "answered"
    /\ rq.refs[1] # 0 /\ rq.refs[2] # 0
    /\ rq.objs[rq.refs[1]].header # Inbound.header
    /\ rq.objs[rq.refs[1]].body = <<>>
    /\ backend[e].req2 = Captured

\* C14 Capture precedes replay: every reader of N.0, the primary's replay's
\* and the secondary's, was opened when N.0 held the whole request and its
\* writer had been closed.
CaptureBeforeReplay ==
  \A e \in Exchanges :
    \A h \in {"r1", "r2"} : handles[e][h].state # "none" => handles[e][h].captured

\* C14 witness: both readers have been opened, with the writer of N.0 closed.
CaptureBeforeReplayWitness ==
  \E e \in Exchanges :
    /\ handles[e]["r1"].state # "none" /\ handles[e]["r2"].state # "none"
    /\ handles[e]["w0"].state = "closed"

\* C19 No handle leak: once the serving task has returned and the goroutine
\* has ended (or was never started), no handle of the exchange is open.
NoHandleLeak ==
  \A e \in Exchanges :
    (Finished(e) /\ (GoEnded(e) \/ detached[e].pc = "none"))
      => \A h \in HandleNames : handles[e][h].state # "open"

\* The error multiCloser.Close is to return: the first closer's that failed.
RECURSIVE FirstError(_)
FirstError(closers) ==
  IF closers = <<>> THEN "nil"
  ELSE IF Head(closers) # "nil" THEN Head(closers) ELSE FirstError(Tail(closers))

\* C17 multiCloser.Close has called Close on every closer once, in order, past
\* the closers that failed, and returns the first error (nil if none).
MultiCloserClosesAll ==
  /\ mc.pc = "returned"
       => /\ mc.called = [k \in 1..Len(mc.closers) |-> k]
          /\ mc.ret = FirstError(mc.closers)
  /\ multiCloser_Close(mc.closers).called = [k \in 1..Len(mc.closers) |-> k]
  /\ multiCloser_Close(mc.closers).err = FirstError(mc.closers)

\* C17 witness: the second closer failed, the third failed differently, all
\* three were closed and the second's error was returned.
MultiCloserWitness ==
  /\ mc.pc = "returned"
  /\ Len(mc.closers) = 3
  /\ mc.closers[1] = "nil" /\ mc.closers[2] = "EBADF" /\ mc.closers[3] = "EIO"
  /\ mc.called = <<1, 2, 3>>
  /\ mc.ret = "EBADF"

\* C20 After one or more Write calls and no WriteHeader call, the respWriter
\* records status 200, and the capture file holds the status line and the
\* header block once, before the body.
ImplicitHeaderOnce ==
  (wr.calls # <<>> /\ \A k \in 1..Len(wr.calls) : wr.calls[k] = "Write")
    => /\ wr.b.rw.status = StatusOK
       /\ Len(wr.b.file.data) >= 2
       /\ wr.b.file.data[1].t = "status" /\ wr.b.file.data[2].t = "header"
       /\ AllBody(wr.b.file.data, 3)

====
